---- MODULE Spec2Model ----
(***************************************************************************)
(* Model of the log deduplicator of ErrorLogCleaner.                       *)
(*                                                                         *)
(* The block-based deduplicateLog of the Home page (src/unnamed/part_001,  *)
(* lines 436-492) is modelled as a state machine that runs one call: the   *)
(* split of the input, one step per iteration of the for loop, the map     *)
(* over processedLines and the final join.  Strings are sequences of       *)
(* one-character strings, so that split, trim, the two regular-expression  *)
(* replacements and the template literal are computed as the code          *)
(* computes them.                                                          *)
(***************************************************************************)
EXTENDS Integers, Sequences, FiniteSets, TLC

VARIABLES log, lines, i, errorCache, processedLines, currentErrorBlock,
          result, ret, pc, calls, home, server

vars == <<log, lines, i, errorCache, processedLines, currentErrorBlock,
          result, ret, pc, calls, home, server>>

\* log .. pc: the parameter, the locals and the position of the running call
\*     of deduplicateLog; ret is the value it returns.
\* calls: the completed calls of deduplicateLog, [input, output], in order.
\* home: the state of the Home page (its useState cells and the request it
\*     waits for).
\* server: the MemStorage instance and the /api/clean-log requests in
\*     progress.

(***************************************************************************)
(* Bounds of the model.                                                    *)
(***************************************************************************)
\* The longest input, in lines, of the specification Spec.
MaxLines == 5

\* The most requests the Home page sends in a run of SpecHome.
MaxClicks == 2

\* The most requests the server receives in a run of SpecServer.
MaxRequests == 3

\* The longest input, in lines, of the specification SpecConsecutive.
MaxRunLines == 4

\* The longest input, in lines, of the specification SpecLineBased.
MaxSyslogLines == 3

\* The most blocks of an input of the specification SpecTags.
MaxTagBlocks == 3

\* The longest input, in lines, of the specification SpecSegments.
MaxSegmentLines == 4

\* The most blocks of an input of the specification SpecCodes.
MaxBlocks == 3

\* The longest first input, in lines, of the specification SpecCalls.
MaxCallLines == 5

\* The number of calls in a run of the specification SpecCalls.
MaxCalls == 2

(***************************************************************************)
(* Character classes of the JavaScript regular expressions and of trim().  *)
(***************************************************************************)
DigitSeq == <<"0", "1", "2", "3", "4", "5", "6", "7", "8", "9">>

Digits == {DigitSeq[k] : k \in 1..10}

Letters ==
    {"a", "b", "c", "d", "e", "f", "g", "h", "i", "j", "k", "l", "m",
     "n", "o", "p", "q", "r", "s", "t", "u", "v", "w", "x", "y", "z",
     "A", "B", "C", "D", "E", "F", "G", "H", "I", "J", "K", "L", "M",
     "N", "O", "P", "Q", "R", "S", "T", "U", "V", "W", "X", "Y", "Z"}

\* \w of a JavaScript regular expression
WordChars == Letters \cup Digits \cup {"_"}

\* \s of a JavaScript regular expression, and what trim() strips
SpaceChars == {" ", "\n", "\t", "\r"}

NL == "\n"

(***************************************************************************)
(* String primitives.                                                      *)
(***************************************************************************)
SetMin(S) == CHOOSE m \in S : \A n \in S : m <= n

SetMax(S) == CHOOSE m \in S : \A n \in S : m >= n

\* String.prototype.trim
Trim(s) ==
    LET keep == {k \in 1..Len(s) : s[k] \notin SpaceChars}
    IN  IF keep = {} THEN <<>> ELSE SubSeq(s, SetMin(keep), SetMax(keep))

\* line.trim() === ''
IsBlank(line) == Trim(line) = <<>>

\* String.prototype.split('\n'): always at least one piece
RECURSIVE SplitFrom(_, _)
SplitFrom(s, k) ==
    LET breaks == {j \in k..Len(s) : s[j] = NL}
    IN  IF breaks = {} THEN <<SubSeq(s, k, Len(s))>>
        ELSE <<SubSeq(s, k, SetMin(breaks) - 1)>>
                 \o SplitFrom(s, SetMin(breaks) + 1)

Split(s) == SplitFrom(s, 1)

\* Array.prototype.join('\n'); the empty array joins to the empty string
RECURSIVE Join(_)
Join(parts) ==
    IF parts = <<>> THEN <<>>
    ELSE IF Len(parts) = 1 THEN parts[1]
    ELSE parts[1] \o <<NL>> \o Join(Tail(parts))

\* The decimal digits of a natural number, as a template literal prints it
RECURSIVE ToDigits(_)
ToDigits(n) ==
    IF n < 10 THEN <<DigitSeq[n + 1]>>
    ELSE ToDigits(n \div 10) \o <<DigitSeq[(n % 10) + 1]>>

(***************************************************************************)
(* normalizeErrorMessage: /\[[\w\s]+\]/g -> '[ID]', then /\d+/g ->         *)
(* '<num>', then trim.                                                     *)
(***************************************************************************)
IdToken == <<"[", "I", "D", "]">>

NumToken == <<"<", "n", "u", "m", ">">>

\* The first index after k at which the run of characters of class cls that
\* starts at k ends (Len(s) + 1 when it reaches the end of the string).
RECURSIVE RunEnd(_, _, _)
RunEnd(s, k, cls) ==
    IF k <= Len(s) /\ s[k] \in cls THEN RunEnd(s, k + 1, cls) ELSE k

\* Where a match of /\[[\w\s]+\]/ that starts at k ends (the index of its
\* closing bracket), 0 when there is no match at k.  The class [\w\s] holds
\* no ']', so only the maximal run can be followed by the closing bracket.
TagEnd(s, k) ==
    IF s[k] # "[" THEN 0
    ELSE LET stop == RunEnd(s, k + 1, WordChars \cup SpaceChars)
         IN  IF stop > k + 1 /\ stop <= Len(s) /\ s[stop] = "]" THEN stop ELSE 0

\* message.replace(/\[[\w\s]+\]/g, '[ID]')
RECURSIVE ReplaceTagsFrom(_, _)
ReplaceTagsFrom(s, k) ==
    IF k > Len(s) THEN <<>>
    ELSE IF TagEnd(s, k) > 0
         THEN IdToken \o ReplaceTagsFrom(s, TagEnd(s, k) + 1)
         ELSE <<s[k]>> \o ReplaceTagsFrom(s, k + 1)

ReplaceTags(s) == ReplaceTagsFrom(s, 1)

\* .replace(/\d+/g, '<num>')
RECURSIVE ReplaceDigitsFrom(_, _)
ReplaceDigitsFrom(s, k) ==
    IF k > Len(s) THEN <<>>
    ELSE IF s[k] \in Digits
         THEN NumToken \o ReplaceDigitsFrom(s, RunEnd(s, k, Digits))
         ELSE <<s[k]>> \o ReplaceDigitsFrom(s, k + 1)

\* ReplaceDigits with /\d/g: every digit becomes a token of its own
RECURSIVE ReplaceDigitsEachFrom(_, _)
ReplaceDigitsEachFrom(s, k) ==
    IF k > Len(s) THEN <<>>
    ELSE IF s[k] \in Digits
         THEN NumToken \o ReplaceDigitsEachFrom(s, k + 1)
         ELSE <<s[k]>> \o ReplaceDigitsEachFrom(s, k + 1)

ReplaceDigitsEach(s) == ReplaceDigitsEachFrom(s, 1)

\* ReplaceDigits with /\w+/g in place of /\d+/g
RECURSIVE ReplaceWordRunsFrom(_, _)
ReplaceWordRunsFrom(s, k) ==
    IF k > Len(s) THEN <<>>
    ELSE IF s[k] \in WordChars
         THEN NumToken \o ReplaceWordRunsFrom(s, RunEnd(s, k, WordChars))
         ELSE <<s[k]>> \o ReplaceWordRunsFrom(s, k + 1)

ReplaceWordRuns(s) == ReplaceWordRunsFrom(s, 1)

ReplaceDigits(s) == ReplaceDigitsFrom(s, 1)

LowerSeq ==
    <<"a", "b", "c", "d", "e", "f", "g", "h", "i", "j", "k", "l", "m",
      "n", "o", "p", "q", "r", "s", "t", "u", "v", "w", "x", "y", "z">>

UpperSeq ==
    <<"A", "B", "C", "D", "E", "F", "G", "H", "I", "J", "K", "L", "M",
      "N", "O", "P", "Q", "R", "S", "T", "U", "V", "W", "X", "Y", "Z">>

\* The lower-case form of a character
ToLower(c) ==
    IF \E k \in 1..26 : UpperSeq[k] = c
    THEN LowerSeq[CHOOSE k \in 1..26 : UpperSeq[k] = c]
    ELSE c

\* normalizeErrorMessage with a toLowerCase() before the replacements
NormalizeLowerCase(message) ==
    Trim(ReplaceDigits(ReplaceTags([k \in 1..Len(message) |-> ToLower(message[k])])))

\* normalizeErrorMessage with the digit pass before the tag pass
NormalizeDigitsFirst(message) == Trim(ReplaceTags(ReplaceDigits(message)))

normalizeErrorMessage(message) == Trim(ReplaceDigits(ReplaceTags(message)))

(***************************************************************************)
(* The body of deduplicateLog.                                             *)
(***************************************************************************)
\* new Map(): the mapping with no keys
EmptyCache == [k \in {} |-> [count |-> 0, originalMessage |-> <<>>]]

\* CacheAfter without the has() test: every occurrence sets a fresh entry
CacheAfterReset(cache, originalBlock) ==
    LET normalizedBlock == normalizeErrorMessage(originalBlock)
    IN  [k \in DOMAIN cache \cup {normalizedBlock} |->
            IF k = normalizedBlock
            THEN [count |-> 1, originalMessage |-> originalBlock]
            ELSE cache[k]]

\* errorCache.has(key) ? entry.count++ : errorCache.set(key, {count: 1, ...})
CacheAfter(cache, originalBlock) ==
    LET normalizedBlock == normalizeErrorMessage(originalBlock)
    IN  IF normalizedBlock \in DOMAIN cache
        THEN [cache EXCEPT ![normalizedBlock].count = @ + 1]
        ELSE [k \in DOMAIN cache \cup {normalizedBlock} |->
                 IF k = normalizedBlock
                 THEN [count |-> 1, originalMessage |-> originalBlock]
                 ELSE cache[k]]

\* ProcessedAfter with unshift in place of push
ProcessedAfterUnshift(processed, cache, originalBlock) ==
    IF normalizeErrorMessage(originalBlock) \in DOMAIN cache
    THEN processed
    ELSE <<originalBlock>> \o processed

\* ProcessedAfter keeping the latest occurrence in place of the first
ProcessedAfterLatest(processed, cache, originalBlock) ==
    IF normalizeErrorMessage(originalBlock) \in DOMAIN cache
    THEN [k \in 1..Len(processed) |->
             IF /\ processed[k] # <<>>
                /\ normalizeErrorMessage(processed[k])
                       = normalizeErrorMessage(originalBlock)
             THEN originalBlock
             ELSE processed[k]]
    ELSE Append(processed, originalBlock)

\* processedLines.push(originalBlock), in the else branch only
ProcessedAfter(processed, cache, originalBlock) ==
    IF normalizeErrorMessage(originalBlock) \in DOMAIN cache
    THEN processed
    ELSE Append(processed, originalBlock)

\* Annotate with the annotation on a line of its own
AnnotateOwnLine(line, count) ==
    line \o <<NL, "[", "x">> \o ToDigits(count) \o <<"]">>

\* `${line} [x${entry.count}]`
Annotate(line, count) == line \o <<" ", "[", "x">> \o ToDigits(count) \o <<"]">>

\* MapLine with count >= 1 in place of count > 1
MapLineAlways(line, cache) ==
    IF line = <<>> THEN <<>>
    ELSE LET normalized == normalizeErrorMessage(line)
         IN  IF normalized \in DOMAIN cache /\ cache[normalized].count >= 1
             THEN Annotate(line, cache[normalized].count)
             ELSE line

\* The callback of processedLines.map
MapLine(line, cache) ==
    IF line = <<>> THEN <<>>
    ELSE LET normalized == normalizeErrorMessage(line)
         IN  IF normalized \in DOMAIN cache /\ cache[normalized].count > 1
             THEN Annotate(line, cache[normalized].count)
             ELSE line

\* The for loop from iteration k on, as one function: the cache and the
\* processed lines it ends with
RECURSIVE LoopFrom(_, _, _, _, _)
LoopFrom(ls, k, cache, processed, block) ==
    IF k >= Len(ls) THEN [cache |-> cache, processed |-> processed]
    ELSE LET line == ls[k + 1]
             last == (k = Len(ls) - 1)
         IN  IF IsBlank(line) \/ last
             THEN LET b == IF last /\ ~IsBlank(line)
                           THEN Append(block, line)
                           ELSE block
                      cache2 == IF Len(b) > 0
                                THEN CacheAfter(cache, Join(b))
                                ELSE cache
                      pushed == IF Len(b) > 0
                                THEN ProcessedAfter(processed, cache, Join(b))
                                ELSE processed
                  IN  LoopFrom(ls, k + 1, cache2,
                               IF IsBlank(line) THEN Append(pushed, <<>>)
                                                ELSE pushed,
                               <<>>)
             ELSE LoopFrom(ls, k + 1, cache, processed, Append(block, line))

\* The value of one call of deduplicateLog on its own
deduplicateLog(text) ==
    LET end == LoopFrom(Split(text), 0, EmptyCache, <<>>, <<>>)
    IN  Join([k \in 1..Len(end.processed) |->
                 MapLine(end.processed[k], end.cache)])

(***************************************************************************)
(* Inputs.  An input is built from lines of a small pool joined by         *)
(* newlines; the pool holds an empty and a whitespace-only line, lines     *)
(* with different fingerprints, lines that differ only in digits, a        *)
(* bracketed tag and a line with trailing whitespace.                      *)
(***************************************************************************)
LinePool ==
    { <<>>,
      <<" ">>,
      <<"a", " ">>,
      <<"a", "1">>,
      <<"a", "2">>,
      <<"[", "b", "]">> }

LineSeqs(n) == UNION {[1..m -> LinePool] : m \in 1..n}

Inputs == {Join(ls) : ls \in LineSeqs(MaxLines)}

(***************************************************************************)
(* Inputs with volatile content: two one-line blocks, separated by a blank *)
(* line, that differ only in an ISO-style timestamp or only in a           *)
(* hexadecimal address.                                                    *)
(***************************************************************************)
IsoDates ==
    { <<"2", "0", "2", "4", "-", "0", "1", "-", "0", "1">>,
      <<"2", "0", "2", "3", "-", "1", "2", "-", "3", "1">> }

IsoSeparators == { <<" ">>, <<"T">> }

IsoTimes ==
    { <<"1", "0", ":", "0", "0", ":", "0", "0">>,
      <<"1", "0", ":", "0", "0", ":", "0", "5">> }

IsoFractions == { <<>>, <<".", "1", "2", "3">> }

\* YYYY-MM-DD, a space or 'T', HH:MM:SS, with or without fractional seconds
IsoTimestamps ==
    {d \o p \o t \o f :
        d \in IsoDates, p \in IsoSeparators, t \in IsoTimes, f \in IsoFractions}

TimeLines == {ts \o <<" ", "f", "a", "i", "l">> : ts \in IsoTimestamps}

\* '0x' followed by one or more hexadecimal digits
HexAddresses ==
    { <<"0", "x", "1", "A", "2", "B">>,
      <<"0", "x", "3", "C", "4", "D">>,
      <<"0", "x", "1", "2">>,
      <<"0", "x", "f", "f">> }

AddrLines == {<<"a", "t", " ">> \o a : a \in HexAddresses}

VolatileInputs ==
    {Join(<<a, <<>>, b>>) : a, b \in TimeLines}
        \cup {Join(<<a, <<>>, b>>) : a, b \in AddrLines}

(***************************************************************************)
(* Inputs of one-line blocks separated by one blank line: status codes,    *)
(* request ids, distinct errors, and texts that differ in case.            *)
(***************************************************************************)
\* Blocks that differ only in a digit run shorter than 4 digits
ShortCodeLines ==
    { <<"H", "T", "T", "P", " ", "4", "0", "4">>,
      <<"H", "T", "T", "P", " ", "5", "0", "0">> }

\* Blocks that differ only in digit runs of 4 or more digits
IdLines ==
    { <<"F", "a", "i", "l", "e", "d", " ", "r", "e", "q", "u", "e", "s",
        "t", " ", "i", "d", "=", "1", "0", "2", "3">>,
      <<"F", "a", "i", "l", "e", "d", " ", "r", "e", "q", "u", "e", "s",
        "t", " ", "i", "d", "=", "9", "9", "8", "1">>,
      <<"F", "a", "i", "l", "e", "d", " ", "r", "e", "q", "u", "e", "s",
        "t", " ", "i", "d", "=", "1", "0", "4", "4", "5", "5">> }

\* Blocks whose text differs outside volatile content
DistinctLines ==
    { <<"N", "u", "l", "l", "P", "o", "i", "n", "t", "e", "r", "E", "x",
        "c", "e", "p", "t", "i", "o", "n", " ", "a", "t", " ", "l", "i",
        "n", "e", " ", "4", "2">>,
      <<"A", "r", "r", "a", "y", "I", "n", "d", "e", "x", "O", "u", "t",
        "O", "f", "B", "o", "u", "n", "d", "s", " ", "a", "t", " ", "l",
        "i", "n", "e", " ", "4", "2">> }

\* Blocks that differ from another block of the pool only in the case of
\* letters: outside a bracketed tag, and inside one
CaseLines ==
    { <<"h", "t", "t", "p", " ", "4", "0", "4">>,
      <<"[", "a", "b", "c", "]", " ", "u", "p">>,
      <<"[", "A", "B", "C", "]", " ", "u", "p">> }

CodeBlocks == ShortCodeLines \cup IdLines \cup DistinctLines \cup CaseLines

\* Blocks bs joined with one blank line between them
RECURSIVE JoinBlocks(_)
JoinBlocks(bs) ==
    IF Len(bs) = 1 THEN bs[1]
    ELSE bs[1] \o <<NL, NL>> \o JoinBlocks(Tail(bs))

CodeInputs ==
    {JoinBlocks(bs) : bs \in UNION {[1..m -> CodeBlocks] : m \in 1..MaxBlocks}}

(***************************************************************************)
(* First inputs of a run of several calls: duplicates with and without     *)
(* digits, and a line that ends in a bracketed tag.                        *)
(***************************************************************************)
CallPool ==
    { <<>>,
      <<"a">>,
      <<"a", "1">>,
      <<"a", " ", "[", "b", "]">> }

CallInputs ==
    {Join(ls) : ls \in UNION {[1..m -> CallPool] : m \in 1..MaxCallLines}}

(***************************************************************************)
(* The state machine of one call deduplicateLog(log).                      *)
(***************************************************************************)
\* The Home page after its first render: the four useState cells
\* (inflight: the requests handleClean awaits; sent, shown: every request
\* sent so far and the request whose response is displayed)
HomeInit ==
    [inputLog |-> <<>>, cleanedLog |-> <<>>, diffParts |-> <<>>,
     isLoading |-> FALSE, inflight |-> <<>>, sent |-> <<>>, shown |-> <<>>]

\* new MemStorage(), and no request received yet
ServerInit ==
    [logs |-> <<>>, currentId |-> 1, reqs |-> <<>>, created |-> <<>>]

InitWith(inputs) ==
    /\ calls = <<>>
    /\ home = HomeInit
    /\ server = ServerInit
    /\ log \in inputs
    /\ lines = <<>>
    /\ i = 0
    /\ errorCache = EmptyCache
    /\ processedLines = <<>>
    /\ currentErrorBlock = <<>>
    /\ result = <<>>
    /\ ret = <<>>
    /\ pc = "start"

Init == InitWith(Inputs)

InitVolatile == InitWith(VolatileInputs)

InitCodes == InitWith(CodeInputs)

InitCalls == InitWith(CallInputs)

\* SplitLog with the cache kept in a variable that outlives the call
SplitLogKeepCache ==
    /\ pc = "start"
    /\ lines' = Split(log)
    /\ i' = 0
    /\ processedLines' = <<>>
    /\ currentErrorBlock' = <<>>
    /\ pc' = "loop"
    /\ UNCHANGED <<log, errorCache, result, ret, calls, home, server>>

\* const lines = log.split('\n'), and the declarations that follow it
SplitLog ==
    /\ pc = "start"
    /\ lines' = Split(log)
    /\ i' = 0
    /\ errorCache' = EmptyCache
    /\ processedLines' = <<>>
    /\ currentErrorBlock' = <<>>
    /\ pc' = "loop"
    /\ UNCHANGED <<log, result, ret, calls, home, server>>

\* LoopEndOfBlock without the push of a non-blank last line: a final block
\* that no blank line follows loses its last line
LoopEndOfBlockNoLastPush ==
    /\ pc = "loop"
    /\ i < Len(lines)
    /\ LET line == lines[i + 1]
           last == (i = Len(lines) - 1)
           block == currentErrorBlock
           originalBlock == Join(block)
           processed == IF Len(block) > 0
                        THEN ProcessedAfter(processedLines, errorCache, originalBlock)
                        ELSE processedLines
       IN  /\ IsBlank(line) \/ last
           /\ errorCache' = IF Len(block) > 0
                            THEN CacheAfter(errorCache, originalBlock)
                            ELSE errorCache
           /\ processedLines' = IF IsBlank(line)
                                THEN Append(processed, <<>>)
                                ELSE processed
           /\ currentErrorBlock' = <<>>
    /\ i' = i + 1
    /\ UNCHANGED <<log, lines, result, ret, pc, calls, home, server>>

\* One iteration of the for loop, then branch: the line is blank or the last
LoopEndOfBlock ==
    /\ pc = "loop"
    /\ i < Len(lines)
    /\ LET line == lines[i + 1]
           last == (i = Len(lines) - 1)
           block == IF last /\ ~IsBlank(line)
                    THEN Append(currentErrorBlock, line)
                    ELSE currentErrorBlock
           originalBlock == Join(block)
           processed == IF Len(block) > 0
                        THEN ProcessedAfter(processedLines, errorCache, originalBlock)
                        ELSE processedLines
       IN  /\ IsBlank(line) \/ last
           /\ errorCache' = IF Len(block) > 0
                            THEN CacheAfter(errorCache, originalBlock)
                            ELSE errorCache
           /\ processedLines' = IF IsBlank(line)
                                THEN Append(processed, <<>>)
                                ELSE processed
           /\ currentErrorBlock' = IF Len(block) > 0 THEN <<>> ELSE block
    /\ i' = i + 1
    /\ UNCHANGED <<log, lines, result, ret, pc, calls, home, server>>

\* One iteration of the for loop, else branch: currentErrorBlock.push(line)
LoopPush ==
    /\ pc = "loop"
    /\ i < Len(lines)
    /\ ~IsBlank(lines[i + 1])
    /\ i # Len(lines) - 1
    /\ currentErrorBlock' = Append(currentErrorBlock, lines[i + 1])
    /\ i' = i + 1
    /\ UNCHANGED <<log, lines, errorCache, processedLines, result, ret, pc,
                   calls, home, server>>

\* const result = processedLines.map(...)
MapResult ==
    /\ pc = "loop"
    /\ i = Len(lines)
    /\ result' = [k \in 1..Len(processedLines) |->
                     MapLine(processedLines[k], errorCache)]
    /\ pc' = "join"
    /\ UNCHANGED <<log, lines, i, errorCache, processedLines,
                   currentErrorBlock, ret, calls, home, server>>

\* Return with a newline after every entry in place of between entries
ReturnTrailingNewline ==
    /\ pc = "join"
    /\ ret' = Join(result) \o <<NL>>
    /\ pc' = "done"
    /\ calls' = Append(calls, [input |-> log, output |-> Join(result) \o <<NL>>])
    /\ UNCHANGED <<log, lines, i, errorCache, processedLines,
                   currentErrorBlock, result, home, server>>

\* return result.join('\n')
Return ==
    /\ pc = "join"
    /\ ret' = Join(result)
    /\ pc' = "done"
    /\ calls' = Append(calls, [input |-> log, output |-> Join(result)])
    /\ UNCHANGED <<log, lines, i, errorCache, processedLines,
                   currentErrorBlock, result, home, server>>

Next ==
    \/ SplitLog
    \/ LoopEndOfBlock
    \/ LoopPush
    \/ MapResult
    \/ Return

\* The caller calls deduplicateLog again, on the same text or on the text
\* the last call returned
CallAgain ==
    /\ pc = "done"
    /\ Len(calls) < MaxCalls
    /\ log' \in {log, ret}
    /\ pc' = "start"
    /\ UNCHANGED <<lines, i, errorCache, processedLines, currentErrorBlock,
                   result, ret, calls, home, server>>

NextCalls ==
    \/ SplitLog
    \/ LoopEndOfBlock
    \/ LoopPush
    \/ MapResult
    \/ Return
    \/ CallAgain

Spec == Init /\ [][Next]_vars

SpecCalls == InitCalls /\ [][NextCalls]_vars

SpecVolatile == InitVolatile /\ [][Next]_vars

SpecCodes == InitCodes /\ [][Next]_vars

\* Blocks with a bracketed tag: with digits in it, without, a tag of digits
\* only, the digits without brackets, and brackets around a character that
\* is neither a word character nor whitespace
TagLines ==
    { <<"[", "a", "b", "c", " ", "1", "2", "3", "]", " ", "u", "p">>,
      <<"[", "x", "y", "z", "]", " ", "u", "p">>,
      <<"[", "7", "]", " ", "u", "p">>,
      <<"7", " ", "u", "p">>,
      <<"[", "a", "-", "1", "]", " ", "u", "p">> }

TagInputs ==
    {JoinBlocks(bs) : bs \in UNION {[1..m -> TagLines] : m \in 1..MaxTagBlocks}}

InitTags == InitWith(TagInputs)

SpecTags == InitTags /\ [][Next]_vars

\* Inputs of a few lines of the pool, for the segmentation into blocks
SegmentInputs ==
    {Join(ls) : ls \in UNION {[1..m -> LinePool] : m \in 1..MaxSegmentLines}}

InitSegments == InitWith(SegmentInputs)

SpecSegments == InitSegments /\ [][Next]_vars

(***************************************************************************)
(* The line-based deduplicateLog and its normalizeLine: four replacements  *)
(* applied in turn, then trim.                                             *)
(***************************************************************************)
HexChars ==
    Digits \cup {"a", "b", "c", "d", "e", "f", "A", "B", "C", "D", "E", "F"}

TimeToken == <<"<", "T", "I", "M", "E", ">">>

AddrToken == <<"<", "A", "D", "D", "R", ">">>

NumUpperToken == <<"<", "N", "U", "M", ">">>

\* \d{n} at k
DigitsAt(s, k, n) ==
    k + n - 1 <= Len(s) /\ \A j \in k..(k + n - 1) : s[j] \in Digits

\* The literal character c at k
CharAt(s, k, c) == k >= 1 /\ k <= Len(s) /\ s[k] = c

\* \d{2}:\d{2}:\d{2} at k
ClockAt(s, k) ==
    /\ DigitsAt(s, k, 2) /\ CharAt(s, k + 2, ":")
    /\ DigitsAt(s, k + 3, 2) /\ CharAt(s, k + 5, ":")
    /\ DigitsAt(s, k + 6, 2)

\* \b between k - 1 and k, and between e and e + 1, around word characters
\* at k and at e
WordStartsAt(s, k) == k = 1 \/ s[k - 1] \notin WordChars

WordEndsAt(s, e) == e = Len(s) \/ s[e + 1] \notin WordChars

\* Where a match of /\d{4}-\d{2}-\d{2}[ T]\d{2}:\d{2}:\d{2}(?:\.\d+)?/ that
\* starts at k ends, 0 when there is none
IsoEnd(s, k) ==
    IF /\ DigitsAt(s, k, 4) /\ CharAt(s, k + 4, "-")
       /\ DigitsAt(s, k + 5, 2) /\ CharAt(s, k + 7, "-")
       /\ DigitsAt(s, k + 8, 2)
       /\ (CharAt(s, k + 10, " ") \/ CharAt(s, k + 10, "T"))
       /\ ClockAt(s, k + 11)
    THEN IF CharAt(s, k + 19, ".") /\ DigitsAt(s, k + 20, 1)
         THEN RunEnd(s, k + 20, Digits) - 1
         ELSE k + 18
    ELSE 0

\* Where a match of /\[\w{3}\s+\d{2}\s+\d{2}:\d{2}:\d{2}\]/ that starts at k
\* ends, 0 when there is none
SyslogEnd(s, k) ==
    IF /\ CharAt(s, k, "[")
       /\ k + 3 <= Len(s)
       /\ \A j \in (k + 1)..(k + 3) : s[j] \in WordChars
    THEN LET day == RunEnd(s, k + 4, SpaceChars)
             clock == RunEnd(s, day + 2, SpaceChars)
         IN  IF /\ day > k + 4
                /\ DigitsAt(s, day, 2)
                /\ clock > day + 2
                /\ ClockAt(s, clock)
                /\ CharAt(s, clock + 8, "]")
             THEN clock + 8
             ELSE 0
    ELSE 0

\* Where a match of /\b0x[0-9A-Fa-f]+\b/ that starts at k ends, 0 when there
\* is none
AddrEnd(s, k) ==
    IF CharAt(s, k, "0") /\ CharAt(s, k + 1, "x") /\ WordStartsAt(s, k)
    THEN LET stop == RunEnd(s, k + 2, HexChars)
         IN  IF stop > k + 2 /\ WordEndsAt(s, stop - 1) THEN stop - 1 ELSE 0
    ELSE 0

\* Where a match of /\b\d{4,}\b/ that starts at k ends, 0 when there is none
LongNumEnd(s, k) ==
    IF DigitsAt(s, k, 4) /\ WordStartsAt(s, k)
    THEN LET stop == RunEnd(s, k, Digits)
         IN  IF WordEndsAt(s, stop - 1) THEN stop - 1 ELSE 0
    ELSE 0

\* Where a match at k of the pattern of a pass ends, 0 when there is none
MatchEnd(pass, s, k) ==
    CASE pass = "iso" -> IsoEnd(s, k)
      [] pass = "syslog" -> SyslogEnd(s, k)
      [] pass = "addr" -> AddrEnd(s, k)
      [] pass = "num" -> LongNumEnd(s, k)

\* s.replace(/.../g, token) with the pattern of a pass
RECURSIVE ReplaceAllFrom(_, _, _, _)
ReplaceAllFrom(s, k, pass, token) ==
    IF k > Len(s) THEN <<>>
    ELSE IF MatchEnd(pass, s, k) > 0
         THEN token \o ReplaceAllFrom(s, MatchEnd(pass, s, k) + 1, pass, token)
         ELSE <<s[k]>> \o ReplaceAllFrom(s, k + 1, pass, token)

\* normalizeLine without the replacement of bracketed syslog timestamps
normalizeLineNoSyslog(line) ==
    LET iso == ReplaceAllFrom(line, 1, "iso", TimeToken)
        addr == ReplaceAllFrom(iso, 1, "addr", AddrToken)
        num == ReplaceAllFrom(addr, 1, "num", NumUpperToken)
    IN  Trim(num)

normalizeLine(line) ==
    LET iso == ReplaceAllFrom(line, 1, "iso", TimeToken)
        syslog == ReplaceAllFrom(iso, 1, "syslog", TimeToken)
        addr == ReplaceAllFrom(syslog, 1, "addr", AddrToken)
        num == ReplaceAllFrom(addr, 1, "num", NumUpperToken)
    IN  Trim(num)

\* log.split("\n").map((l) => l.trim()).filter((l) => l.length > 0)
RECURSIVE TrimmedLinesFrom(_, _)
TrimmedLinesFrom(ls, k) ==
    IF k > Len(ls) THEN <<>>
    ELSE IF Trim(ls[k]) = <<>> THEN TrimmedLinesFrom(ls, k + 1)
         ELSE <<Trim(ls[k])>> \o TrimmedLinesFrom(ls, k + 1)

TrimmedLines(text) == TrimmedLinesFrom(Split(text), 1)

\* The Map seen, in insertion order, after the loop over the lines from k
RECURSIVE SeenFrom(_, _, _)
SeenFrom(ls, k, seen) ==
    IF k > Len(ls) THEN seen
    ELSE LET norm == normalizeLine(ls[k])
             hits == {j \in 1..Len(seen) : seen[j].norm = norm}
         IN  IF hits # {}
             THEN SeenFrom(ls, k + 1,
                      [seen EXCEPT ![SetMin(hits)].count = @ + 1])
             ELSE SeenFrom(ls, k + 1,
                      Append(seen, [norm |-> norm, original |-> ls[k],
                                    count |-> 1]))

\* The line-based deduplicateLog
deduplicateLogLines(text) ==
    LET seen == SeenFrom(TrimmedLines(text), 1, <<>>)
    IN  Join([j \in 1..Len(seen) |->
                 IF seen[j].count > 1
                 THEN Annotate(seen[j].original, seen[j].count)
                 ELSE seen[j].original])

(***************************************************************************)
(* The consecutive-line deduplicateLog: a run of equal adjacent lines is   *)
(* pushed once when the next different line, or the end, is reached.       *)
(***************************************************************************)
\* RunLine with count >= 1 in place of count > 1
RunLineAlways(currentLine, count) == Annotate(currentLine, count)

\* count > 1 ? `${currentLine} [x${count}]` : currentLine
RunLine(currentLine, count) ==
    IF count > 1 THEN Annotate(currentLine, count) ELSE currentLine

\* The loop from line k on and the push after it; started is FALSE while
\* currentLine is null
RECURSIVE RunsFrom(_, _, _, _, _, _)
RunsFrom(ls, k, started, currentLine, count, out) ==
    IF k > Len(ls)
    THEN IF started THEN Append(out, RunLine(currentLine, count)) ELSE out
    ELSE IF started /\ ls[k] = currentLine
         THEN RunsFrom(ls, k + 1, TRUE, currentLine, count + 1, out)
         ELSE RunsFrom(ls, k + 1, TRUE, ls[k], 1,
                  IF started THEN Append(out, RunLine(currentLine, count))
                  ELSE out)

deduplicateLogConsecutive(text) ==
    Join(RunsFrom(Split(text), 1, FALSE, <<>>, 0, <<>>))

(***************************************************************************)
(* The Home page: handleClean and the state it sets.  diffLines is the     *)
(* library's; the model keeps its two arguments, <<oldStr, newStr>>, as    *)
(* the value of diffParts.                                                 *)
(***************************************************************************)
\* What the user types or uploads
HomeTexts ==
    { <<>>,
      <<"a">>,
      <<"a", NL, NL, "a">>,
      <<"a", "1", NL, NL, "a", "2">> }

\* What the service answers in data.cleaned
CleanedTexts == { <<"c">>, <<"d">> }

\* handleClean sending the raw input: { log: inputLog }
RequestBodyRaw(inputLog) == [log |-> inputLog]

\* const dedupedLog = deduplicateLog(inputLog); the body { log: dedupedLog }
RequestBody(inputLog) == [log |-> deduplicateLog(inputLog)]

\* The diff library's diffLines, kept as the pair of its arguments
diffLines(oldStr, newStr) == <<oldStr, newStr>>

\* disabled={!inputLog}: the button stays enabled while a request runs
CleanEnabledWhileLoading == home.inputLog # <<>>

\* disabled={!inputLog || isLoading}
CleanEnabled == home.inputLog # <<>> /\ ~home.isLoading

InitHome ==
    /\ calls = <<>>
    /\ home = HomeInit
    /\ server = ServerInit
    /\ log = <<>>
    /\ lines = <<>>
    /\ i = 0
    /\ errorCache = EmptyCache
    /\ processedLines = <<>>
    /\ currentErrorBlock = <<>>
    /\ result = <<>>
    /\ ret = <<>>
    /\ pc = "idle"

dedupVars == <<log, lines, i, errorCache, processedLines, currentErrorBlock,
               result, ret, pc, calls>>

\* Textarea onChange and handleFileUpload: setInputLog
SetInputLog ==
    /\ \E text \in HomeTexts :
           /\ text # home.inputLog
           /\ home' = [home EXCEPT !.inputLog = text]
    /\ UNCHANGED <<dedupVars, server>>

\* A click on the Clean button: handleClean up to its await
HandleClean ==
    /\ CleanEnabled
    /\ Len(home.sent) < MaxClicks
    /\ LET request == [id |-> Len(home.sent) + 1,
                       body |-> RequestBody(home.inputLog),
                       inputLog |-> home.inputLog]
       IN  home' = IF home.inputLog = <<>>
                   THEN home
                   ELSE [home EXCEPT !.isLoading = TRUE,
                                     !.inflight = Append(@, request),
                                     !.sent = Append(@, request)]
    /\ UNCHANGED <<dedupVars, server>>

\* The request is answered: setCleanedLog, setDiffParts, and the finally
HandleCleanSuccess ==
    /\ \E k \in 1..Len(home.inflight), cleaned \in CleanedTexts :
           LET request == home.inflight[k]
           IN  home' = [home EXCEPT
                   !.cleanedLog = cleaned,
                   !.diffParts = diffLines(request.inputLog, cleaned),
                   !.shown = <<request>>,
                   !.isLoading = FALSE,
                   !.inflight = SubSeq(@, 1, k - 1) \o SubSeq(@, k + 1, Len(@))]
    /\ UNCHANGED <<dedupVars, server>>

\* handleClean with setIsLoading(false) at the end of the try block only
HandleCleanFailureNoFinally ==
    /\ \E k \in 1..Len(home.inflight) :
           home' = [home EXCEPT
               !.inflight = SubSeq(@, 1, k - 1) \o SubSeq(@, k + 1, Len(@))]
    /\ UNCHANGED <<dedupVars, server>>

\* The request fails: the catch (a toast) and the finally
HandleCleanFailure ==
    /\ \E k \in 1..Len(home.inflight) :
           home' = [home EXCEPT
               !.isLoading = FALSE,
               !.inflight = SubSeq(@, 1, k - 1) \o SubSeq(@, k + 1, Len(@))]
    /\ UNCHANGED <<dedupVars, server>>

NextHome ==
    \/ SetInputLog
    \/ HandleClean
    \/ HandleCleanSuccess
    \/ HandleCleanFailure

SpecHome == InitHome /\ [][NextHome]_vars

(***************************************************************************)
(* One call of the consecutive-line deduplicateLog, and one call of the    *)
(* line-based deduplicateLog, on inputs of a few lines.                    *)
(***************************************************************************)
\* Lines that repeat, with a blank line and a line that differs in a
\* trailing space
RunPool == { <<>>, <<"a">>, <<"a", " ">>, <<"b">> }

RunInputs ==
    {Join(ls) : ls \in UNION {[1..m -> RunPool] : m \in 1..MaxRunLines}}

\* Bracketed syslog-style timestamps that differ in month, day and time
SyslogStamps ==
    { <<"[", "J", "a", "n", " ", "0", "5", " ",
        "1", "0", ":", "0", "0", ":", "0", "0", "]">>,
      <<"[", "F", "e", "b", " ", "1", "7", " ",
        "2", "3", ":", "5", "9", ":", "5", "9", "]">> }

SyslogMessages == { <<" ", "u", "p">>, <<" ", "d", "n">> }

SyslogPool ==
    {ts \o msg : ts \in SyslogStamps, msg \in SyslogMessages}
        \cup { <<"u", "p">> }

SyslogInputs ==
    {Join(ls) : ls \in UNION {[1..m -> SyslogPool] : m \in 1..MaxSyslogLines}}

\* Before a call on one of the inputs
InitCall(inputs) ==
    /\ calls = <<>>
    /\ home = HomeInit
    /\ server = ServerInit
    /\ log \in inputs
    /\ lines = <<>>
    /\ i = 0
    /\ errorCache = EmptyCache
    /\ processedLines = <<>>
    /\ currentErrorBlock = <<>>
    /\ result = <<>>
    /\ ret = <<>>
    /\ pc = "idle"

InitConsecutive == InitCall(RunInputs)

InitLineBased == InitCall(SyslogInputs)

\* A call of the consecutive-line deduplicateLog
CallConsecutive ==
    /\ pc = "idle"
    /\ ret' = deduplicateLogConsecutive(log)
    /\ pc' = "done"
    /\ UNCHANGED <<log, lines, i, errorCache, processedLines,
                   currentErrorBlock, result, calls, home, server>>

\* A call of the line-based deduplicateLog
CallLineBased ==
    /\ pc = "idle"
    /\ ret' = deduplicateLogLines(log)
    /\ pc' = "done"
    /\ UNCHANGED <<log, lines, i, errorCache, processedLines,
                   currentErrorBlock, result, calls, home, server>>

SpecConsecutive == InitConsecutive /\ [][CallConsecutive]_vars

SpecLineBased == InitLineBased /\ [][CallLineBased]_vars

(***************************************************************************)
(* The server: the handler of POST /api/clean-log and MemStorage.  A       *)
(* request runs from its arrival to the await of the model's completion,   *)
(* and from the completion to its response; requests interleave at the     *)
(* await.  server.created lists the createLog calls in call order.         *)
(***************************************************************************)
\* The bodies a client posts: no log field, an empty log, a log
RequestBodies ==
    { [hasLog |-> FALSE, log |-> <<>>],
      [hasLog |-> TRUE, log |-> <<>>],
      [hasLog |-> TRUE, log |-> <<"a">>],
      [hasLog |-> TRUE, log |-> <<"b">>] }

\* z.string() with no min(1): any string is accepted
SchemaAcceptsEmpty(body) == body.hasLog

\* z.string().min(1, "Log content is required")
SchemaAccepts(body) == body.hasLog /\ Len(body.log) >= 1

\* createLog reading currentId without incrementing it
CreateLogNoIncrement(storage, insertLog) ==
    LET id == storage.currentId
    IN  [currentId |-> storage.currentId,
         log |-> [id |-> id, originalContent |-> insertLog.originalContent,
                  cleanedContent |-> insertLog.cleanedContent],
         logs |-> [k \in DOMAIN storage.logs \cup {id} |->
                      IF k = id
                      THEN [id |-> id,
                            originalContent |-> insertLog.originalContent,
                            cleanedContent |-> insertLog.cleanedContent]
                      ELSE storage.logs[k]]]

\* MemStorage.createLog: const id = this.currentId++; this.logs.set(id, log)
CreateLog(storage, insertLog) ==
    LET id == storage.currentId
        stored == [id |-> id, originalContent |-> insertLog.originalContent,
                   cleanedContent |-> insertLog.cleanedContent]
    IN  [currentId |-> storage.currentId + 1,
         log |-> stored,
         logs |-> [k \in DOMAIN storage.logs \cup {id} |->
                      IF k = id THEN stored ELSE storage.logs[k]]]

InitServer == InitHome

\* error.errors[0].message of the ZodError: zod's own message for a missing
\* field, the schema's for an empty one
ZodMessage(body) ==
    IF body.hasLog THEN "Log content is required" ELSE "Required"

\* A request the handler has just received
NewRequest(body) ==
    [at |-> "parse", hasLog |-> body.hasLog, log |-> body.log,
     called |-> FALSE, cleaned |-> <<>>, saved |-> 0,
     responses |-> 0, status |-> 0, error |-> "", sent |-> <<>>]

\* res.status(status).json(...): one more response of the request
Respond(req, status, error, cleaned) ==
    [req EXCEPT !.at = "done", !.responses = @ + 1, !.status = status,
                !.error = error, !.sent = cleaned]

\* A request arrives: the schema's parse, then the call of the model (or
\* the 400 of the ZodError)
ReceiveRequest ==
    /\ Len(server.reqs) < MaxRequests
    /\ \E body \in RequestBodies :
           server' = [server EXCEPT !.reqs = Append(@,
               IF SchemaAccepts(body)
               THEN [NewRequest(body) EXCEPT !.at = "llm", !.called = TRUE]
               ELSE Respond(NewRequest(body), 400, ZodMessage(body), <<>>))]
    /\ UNCHANGED <<dedupVars, home>>

\* The completion resolves and the handler answers at once, storing nothing
CompletionResolvesNoStore ==
    /\ \E r \in 1..Len(server.reqs), cleaned \in CleanedTexts :
           /\ server.reqs[r].at = "llm"
           /\ server' = [server EXCEPT
                  !.reqs[r] = Respond([@ EXCEPT !.cleaned = cleaned],
                                      200, "", cleaned)]
    /\ UNCHANGED <<dedupVars, home>>

\* The model's completion resolves: createLog runs to its return, and the
\* handler awaits its promise
CompletionResolves ==
    /\ \E r \in 1..Len(server.reqs), cleaned \in CleanedTexts :
           /\ server.reqs[r].at = "llm"
           /\ LET made == CreateLog(server, [originalContent |-> server.reqs[r].log,
                                             cleanedContent |-> cleaned])
              IN  server' = [server EXCEPT
                      !.logs = made.logs,
                      !.currentId = made.currentId,
                      !.created = Append(@, [req |-> r, id |-> made.log.id,
                                             log |-> made.log]),
                      !.reqs[r].at = "saved",
                      !.reqs[r].cleaned = cleaned,
                      !.reqs[r].saved = made.log.id]
    /\ UNCHANGED <<dedupVars, home>>

\* A handler that stores the record before it calls the model: the failure
\* leaves the record behind
CompletionRejectsAfterStore ==
    /\ \E r \in 1..Len(server.reqs) :
           /\ server.reqs[r].at = "llm"
           /\ LET made == CreateLog(server, [originalContent |-> server.reqs[r].log,
                                             cleanedContent |-> <<>>])
              IN  server' = [server EXCEPT
                      !.logs = made.logs,
                      !.currentId = made.currentId,
                      !.reqs[r] = Respond(@, 500, "Error processing log", <<>>)]
    /\ UNCHANGED <<dedupVars, home>>

\* A catch that logs the error and sends nothing
CompletionRejectsSilently ==
    /\ \E r \in 1..Len(server.reqs) :
           /\ server.reqs[r].at = "llm"
           /\ server' = [server EXCEPT !.reqs[r].at = "done"]
    /\ UNCHANGED <<dedupVars, home>>

\* The model's completion rejects, or has no choice: the 500 of the catch
CompletionRejects ==
    /\ \E r \in 1..Len(server.reqs) :
           /\ server.reqs[r].at = "llm"
           /\ server' = [server EXCEPT
                  !.reqs[r] = Respond(@, 500, "Error processing log", <<>>)]
    /\ UNCHANGED <<dedupVars, home>>

\* After the await of createLog: res.json({ cleaned: cleanedLog })
SendCleaned ==
    /\ \E r \in 1..Len(server.reqs) :
           /\ server.reqs[r].at = "saved"
           /\ server' = [server EXCEPT
                  !.reqs[r] = Respond(@, 200, "", server.reqs[r].cleaned)]
    /\ UNCHANGED <<dedupVars, home>>

NextServer ==
    \/ ReceiveRequest
    \/ CompletionResolves
    \/ CompletionRejects
    \/ SendCleaned

SpecServer == InitServer /\ [][NextServer]_vars

\* The model's call and the store's call settle, and a handler that can
\* continue does
SpecServerSettles ==
    /\ SpecServer
    /\ WF_vars(CompletionResolves \/ CompletionRejects)
    /\ WF_vars(SendCleaned)

(***************************************************************************)
(* What the claims speak of: the blocks of a text, fingerprints, and the   *)
(* count printed in an annotation.  These are read off the input `log`     *)
(* and the returned string `ret`, not off the loop's variables.            *)
(***************************************************************************)
\* The maximal runs of consecutive non-blank lines of ls, each joined by
\* newlines, in order; cur is the run being read.
RECURSIVE BlocksFrom(_, _)
BlocksFrom(ls, cur) ==
    IF ls = <<>> THEN (IF cur = <<>> THEN <<>> ELSE <<Join(cur)>>)
    ELSE IF IsBlank(Head(ls))
         THEN (IF cur = <<>> THEN <<>> ELSE <<Join(cur)>>)
              \o BlocksFrom(Tail(ls), <<>>)
         ELSE BlocksFrom(Tail(ls), Append(cur, Head(ls)))

BlocksOf(text) == BlocksFrom(Split(text), <<>>)

InputBlocks == BlocksOf(log)

OutputBlocks == BlocksOf(ret)

Fingerprint(block) == normalizeErrorMessage(block)

\* How many input blocks have fingerprint f
CountOf(f) ==
    Cardinality({k \in 1..Len(InputBlocks) : Fingerprint(InputBlocks[k]) = f})

\* The index of the first input block with fingerprint f
FirstIndex(f) ==
    SetMin({k \in 1..Len(InputBlocks) : Fingerprint(InputBlocks[k]) = f})

\* The sub-sequence of blocks that are the first with their fingerprint
RECURSIVE FirstOccurrences(_, _)
FirstOccurrences(blocks, seen) ==
    IF blocks = <<>> THEN <<>>
    ELSE IF Fingerprint(Head(blocks)) \in seen
         THEN FirstOccurrences(Tail(blocks), seen)
         ELSE <<Head(blocks)>>
              \o FirstOccurrences(Tail(blocks), seen \cup {Fingerprint(Head(blocks))})

FirstSeen == FirstOccurrences(InputBlocks, {})

PairwiseDistinct(blocks) ==
    \A a, b \in 1..Len(blocks) :
        a # b => Fingerprint(blocks[a]) # Fingerprint(blocks[b])

HasSuffix(s, t) ==
    Len(s) >= Len(t) /\ SubSeq(s, Len(s) - Len(t) + 1, Len(s)) = t

\* The text ' [xn]'
AnnotSuffix(n) == <<" ", "[", "x">> \o ToDigits(n) \o <<"]">>

\* The counts n for which the emitted block e ends in ' [xn]'
PrintedCounts(e) == {n \in 1..(Len(log) + 1) : HasSuffix(e, AnnotSuffix(n))}

\* The count an emitted block stands for: the printed one, or 1 without
\* annotation
PrintedCount(e) ==
    IF PrintedCounts(e) = {} THEN 1 ELSE SetMax(PrintedCounts(e))

\* The emitted block without its annotation
PrintedText(e) ==
    IF PrintedCounts(e) = {} THEN e
    ELSE SubSeq(e, 1, Len(e) - Len(AnnotSuffix(PrintedCount(e))))

\* The blocks the loop has completed after i iterations
CompletedBlocks ==
    LET bs == BlocksFrom(SubSeq(lines, 1, i), <<>>)
    IN  IF currentErrorBlock = <<>> THEN bs ELSE SubSeq(bs, 1, Len(bs) - 1)

NonEmptyEntries(entries) == SelectSeq(entries, LAMBDA e : e # <<>>)

(***************************************************************************)
(* C1.  Count correctness: every fingerprint of the input has exactly one  *)
(* emitted block, and the number printed in that block's ' [xN]'           *)
(* annotation (1 when the block carries none) is the number of input       *)
(* blocks with that fingerprint.                                           *)
(***************************************************************************)
CountCorrect ==
    pc = "done" =>
        /\ \A k \in 1..Len(OutputBlocks) :
               PrintedCount(OutputBlocks[k])
                   = CountOf(Fingerprint(PrintedText(OutputBlocks[k])))
        /\ \A j \in 1..Len(InputBlocks) :
               Cardinality({k \in 1..Len(OutputBlocks) :
                                Fingerprint(PrintedText(OutputBlocks[k]))
                                    = Fingerprint(InputBlocks[j])}) = 1

\* A finished call on an input with a fingerprint that occurs twice and
\* another that occurs once.
CountCorrectWitness ==
    /\ pc = "done"
    /\ \E a, b \in 1..Len(OutputBlocks) :
           /\ PrintedCount(OutputBlocks[a]) = 2
           /\ PrintedCount(OutputBlocks[b]) = 1

(***************************************************************************)
(* C2.  Order preservation: the fingerprints of the emitted blocks, in     *)
(* output order, are the fingerprints of the input blocks in the order of  *)
(* their first occurrence.                                                 *)
(***************************************************************************)
OrderPreserved ==
    pc = "done" =>
        [k \in 1..Len(OutputBlocks) |-> Fingerprint(PrintedText(OutputBlocks[k]))]
            = [k \in 1..Len(FirstSeen) |-> Fingerprint(FirstSeen[k])]

\* A finished call where the most frequent block is first seen after a
\* block that occurs once, and a duplicate follows.
OrderPreservedWitness ==
    /\ pc = "done"
    /\ Len(OutputBlocks) = 2
    /\ PrintedCount(OutputBlocks[1]) = 1
    /\ PrintedCount(OutputBlocks[2]) = 2

(***************************************************************************)
(* C3.  Representative selection: the entry of a fingerprint always holds  *)
(* the verbatim text of the first input block with that fingerprint, the   *)
(* blocks pushed so far are the first occurrences of the blocks completed  *)
(* so far (a later duplicate changes neither text nor order), and the      *)
(* text emitted for a fingerprint is that first block's text.              *)
(***************************************************************************)
RepresentativeIsFirst ==
    /\ \A f \in DOMAIN errorCache :
           errorCache[f].originalMessage = InputBlocks[FirstIndex(f)]
    /\ pc = "loop" =>
           NonEmptyEntries(processedLines) = FirstOccurrences(CompletedBlocks, {})
    /\ pc = "done" =>
           [k \in 1..Len(OutputBlocks) |-> PrintedText(OutputBlocks[k])] = FirstSeen

\* A finished call where a later block has the fingerprint of an earlier
\* one and another text.
RepresentativeIsFirstWitness ==
    /\ pc = "done"
    /\ \E a, b \in 1..Len(InputBlocks) :
           /\ a < b
           /\ Fingerprint(InputBlocks[a]) = Fingerprint(InputBlocks[b])
           /\ InputBlocks[a] # InputBlocks[b]

(***************************************************************************)
(* C4.  An input of blank lines only gives the empty string.               *)
(***************************************************************************)
BlankInputGivesEmpty ==
    (pc = "done" /\ \A k \in 1..Len(lines) : IsBlank(lines[k])) => ret = <<>>

(***************************************************************************)
(* C5.  Two consecutive emitted blocks are separated by exactly one blank  *)
(* line: between two non-blank lines of the output there is never more     *)
(* than one blank line.                                                    *)
(***************************************************************************)
OneBlankLineBetweenBlocks ==
    pc = "done" =>
        LET out == Split(ret)
        IN  \A a, b \in 1..Len(out) :
                (/\ a + 1 < b
                 /\ ~IsBlank(out[a])
                 /\ ~IsBlank(out[b])
                 /\ \A m \in (a + 1)..(b - 1) : IsBlank(out[m]))
                => b = a + 2

(***************************************************************************)
(* C6.  The output never begins or ends with a blank line.                 *)
(***************************************************************************)
NoLeadingOrTrailingBlankLine ==
    (pc = "done" /\ ret # <<>>) =>
        LET out == Split(ret)
        IN  ~IsBlank(out[1]) /\ ~IsBlank(out[Len(out)])

(***************************************************************************)
(* C7.  No duplicates is a no-op on structure: when the fingerprints of    *)
(* the input blocks are pairwise distinct, the blocks of the output are    *)
(* the blocks of the input, text for text and in order (so none is         *)
(* annotated), and an input that is one block and nothing else is          *)
(* returned unchanged.                                                     *)
(***************************************************************************)
NoDuplicatesNoOp ==
    (pc = "done" /\ PairwiseDistinct(InputBlocks)) =>
        /\ OutputBlocks = InputBlocks
        /\ (\A k \in 1..Len(lines) : ~IsBlank(lines[k])) => ret = log

\* A finished call on three blocks with three fingerprints.
NoDuplicatesNoOpWitness ==
    /\ pc = "done"
    /\ Len(InputBlocks) = 3
    /\ PairwiseDistinct(InputBlocks)
    /\ Len(OutputBlocks) = 3

(***************************************************************************)
(* C8.  Annotation format: an entry of processedLines whose count is       *)
(* greater than 1 is emitted with ' [x<count>]' appended to its last line  *)
(* and is otherwise unchanged; an entry whose count is 1 is emitted        *)
(* unchanged; no line is added.                                            *)
(***************************************************************************)
AnnotationFormat ==
    pc \in {"join", "done"} =>
        /\ Len(result) = Len(processedLines)
        /\ \A k \in 1..Len(processedLines) :
               LET src == Split(processedLines[k])
                   out == Split(result[k])
                   n == CountOf(Fingerprint(processedLines[k]))
               IN  IF processedLines[k] = <<>> THEN result[k] = <<>>
                   ELSE /\ Len(out) = Len(src)
                        /\ \A m \in 1..(Len(src) - 1) : out[m] = src[m]
                        /\ out[Len(src)] =
                               IF n > 1
                               THEN src[Len(src)] \o AnnotSuffix(n)
                               ELSE src[Len(src)]

\* A finished call that emits a block of two lines with count 2.
AnnotationFormatWitness ==
    /\ pc = "done"
    /\ \E k \in 1..Len(processedLines) :
           /\ Len(Split(processedLines[k])) = 2
           /\ CountOf(Fingerprint(processedLines[k])) = 2
           /\ result[k] # processedLines[k]

(***************************************************************************)
(* C9.  Two blocks that differ only in an ISO-style timestamp get the same *)
(* fingerprint, and the output holds a single block: the first block's     *)
(* text annotated ' [x2]'.                                                 *)
(***************************************************************************)
IsoTimestampsMerge ==
    (/\ pc = "done"
     /\ Len(lines) = 3
     /\ lines[1] \in TimeLines
     /\ lines[3] \in TimeLines)
    => /\ Fingerprint(lines[1]) = Fingerprint(lines[3])
       /\ OutputBlocks = <<lines[1] \o AnnotSuffix(2)>>

(***************************************************************************)
(* C10.  Two blocks that differ only in a hexadecimal address get the same *)
(* fingerprint and are merged into one emitted block.                      *)
(***************************************************************************)
HexAddressesMerge ==
    (/\ pc = "done"
     /\ Len(lines) = 3
     /\ lines[1] \in AddrLines
     /\ lines[3] \in AddrLines)
    => /\ Fingerprint(lines[1]) = Fingerprint(lines[3])
       /\ Len(OutputBlocks) = 1

(***************************************************************************)
(* C11.  The digit-run threshold is 4: two blocks that differ only in a    *)
(* digit run shorter than 4 digits have different fingerprints and are     *)
(* emitted as two separate, unannotated blocks.                            *)
(***************************************************************************)
ShortCodesKeptApart ==
    (/\ pc = "done"
     /\ Len(InputBlocks) = 2
     /\ InputBlocks[1] \in ShortCodeLines
     /\ InputBlocks[2] \in ShortCodeLines
     /\ InputBlocks[1] # InputBlocks[2])
    => /\ Fingerprint(InputBlocks[1]) # Fingerprint(InputBlocks[2])
       /\ OutputBlocks = InputBlocks

(***************************************************************************)
(* C12.  Blocks that differ only in digit runs of 4 or more digits are     *)
(* merged: k such blocks give one output block, the first block's text     *)
(* annotated ' [xk]'.                                                      *)
(***************************************************************************)
LongDigitRunsMerge ==
    (/\ pc = "done"
     /\ Len(InputBlocks) >= 2
     /\ \A k \in 1..Len(InputBlocks) : InputBlocks[k] \in IdLines)
    => OutputBlocks = <<InputBlocks[1] \o AnnotSuffix(Len(InputBlocks))>>

\* A finished call on three blocks with three different request ids.
LongDigitRunsMergeWitness ==
    /\ pc = "done"
    /\ Len(InputBlocks) = 3
    /\ {InputBlocks[k] : k \in 1..3} = IdLines

(***************************************************************************)
(* C13.  Distinct errors are preserved: there are as many output blocks    *)
(* as fingerprints in the input, every input block's fingerprint has an    *)
(* output block, and two blocks whose text differs outside volatile        *)
(* content are both emitted, unannotated, in their order.                  *)
(***************************************************************************)
DistinctErrorsPreserved ==
    pc = "done" =>
        /\ Len(OutputBlocks)
               = Cardinality({Fingerprint(InputBlocks[k]) : k \in 1..Len(InputBlocks)})
        /\ \A j \in 1..Len(InputBlocks) :
               \E k \in 1..Len(OutputBlocks) :
                   Fingerprint(PrintedText(OutputBlocks[k]))
                       = Fingerprint(InputBlocks[j])
        /\ (/\ Len(InputBlocks) = 2
            /\ InputBlocks[1] \in DistinctLines
            /\ InputBlocks[2] \in DistinctLines
            /\ InputBlocks[1] # InputBlocks[2])
           => OutputBlocks = InputBlocks

\* A finished call on the two distinct errors.
DistinctErrorsPreservedWitness ==
    /\ pc = "done"
    /\ Len(InputBlocks) = 2
    /\ {InputBlocks[1], InputBlocks[2]} = DistinctLines
    /\ Len(OutputBlocks) = 2

\* Two texts of equal length that differ, and only in the case of letters
DiffersOnlyInCase(a, b) ==
    /\ Len(a) = Len(b)
    /\ a # b
    /\ \A k \in 1..Len(a) : ToLower(a[k]) = ToLower(b[k])

\* The positions of s that lie inside a match of /\[[\w\s]+\]/g
RECURSIVE TagPositionsFrom(_, _)
TagPositionsFrom(s, k) ==
    IF k > Len(s) THEN {}
    ELSE IF TagEnd(s, k) > 0
         THEN (k..TagEnd(s, k)) \cup TagPositionsFrom(s, TagEnd(s, k) + 1)
         ELSE TagPositionsFrom(s, k + 1)

\* a and b differ at a position outside every bracketed tag
DiffersOutsideTags(a, b) ==
    \E k \in 1..Len(a) : a[k] # b[k] /\ k \notin TagPositionsFrom(a, 1)

(***************************************************************************)
(* C14, as claimed.  Any two blocks whose texts differ only in the case of *)
(* letters have different fingerprints, wherever the letters stand.        *)
(***************************************************************************)
CaseSensitiveEverywhere ==
    pc = "done" =>
        \A a, b \in 1..Len(InputBlocks) :
            DiffersOnlyInCase(InputBlocks[a], InputBlocks[b])
            => Fingerprint(InputBlocks[a]) # Fingerprint(InputBlocks[b])

(***************************************************************************)
(* C14, amended.  Two blocks whose texts differ only in the case of        *)
(* letters, at least one of them outside every bracketed tag, have         *)
(* different fingerprints and are both emitted; a difference of case       *)
(* inside a bracketed tag is erased with the tag.                          *)
(***************************************************************************)
CaseSensitiveOutsideTags ==
    pc = "done" =>
        \A a, b \in 1..Len(InputBlocks) :
            (/\ DiffersOnlyInCase(InputBlocks[a], InputBlocks[b])
             /\ DiffersOutsideTags(InputBlocks[a], InputBlocks[b]))
            => /\ Fingerprint(InputBlocks[a]) # Fingerprint(InputBlocks[b])
               /\ \E k, m \in 1..Len(OutputBlocks) :
                      /\ k # m
                      /\ Fingerprint(PrintedText(OutputBlocks[k]))
                             = Fingerprint(InputBlocks[a])
                      /\ Fingerprint(PrintedText(OutputBlocks[m]))
                             = Fingerprint(InputBlocks[b])

\* A finished call on two blocks that differ only in the case of letters
\* outside a tag.
CaseSensitiveOutsideTagsWitness ==
    /\ pc = "done"
    /\ Len(InputBlocks) = 2
    /\ DiffersOnlyInCase(InputBlocks[1], InputBlocks[2])
    /\ DiffersOutsideTags(InputBlocks[1], InputBlocks[2])
    /\ Len(OutputBlocks) = 2

\* The characters of a text
CharsOf(text) == {text[k] : k \in 1..Len(text)}

(***************************************************************************)
(* C15, as claimed.  Idempotence: a call on the output of the call before  *)
(* it returns that output again, for every input.                          *)
(***************************************************************************)
Idempotent ==
    \A k \in 2..Len(calls) :
        calls[k].input = calls[k - 1].output
        => calls[k].output = calls[k - 1].output

(***************************************************************************)
(* C15, amended.  Idempotence for inputs without an opening bracket: when  *)
(* the first input holds no '[', a call on the output of the call before   *)
(* it returns that output again.                                           *)
(***************************************************************************)
IdempotentWithoutBrackets ==
    \A k \in 2..Len(calls) :
        (/\ calls[k].input = calls[k - 1].output
         /\ "[" \notin CharsOf(calls[1].input))
        => calls[k].output = calls[k - 1].output

\* A second call on the annotated output of a first call whose input has no
\* bracket and three blocks.
IdempotentWithoutBracketsWitness ==
    /\ Len(calls) = 2
    /\ calls[2].input = calls[1].output
    /\ "[" \notin CharsOf(calls[1].input)
    /\ Len(BlocksOf(calls[1].input)) = 3
    /\ Len(BlocksOf(calls[1].output)) = 2

(***************************************************************************)
(* C16.  No state between calls: every call starts its loop with an empty  *)
(* mapping and empty lists, and returns what one call on its input alone   *)
(* returns, whatever calls ran before it.                                  *)
(***************************************************************************)
NoStateBetweenCalls ==
    /\ \A k \in 1..Len(calls) :
           calls[k].output = deduplicateLog(calls[k].input)
    /\ (pc = "loop" /\ i = 0) =>
           /\ errorCache = EmptyCache
           /\ processedLines = <<>>
           /\ currentErrorBlock = <<>>

\* A second call finished on the input of the first, which has duplicates.
NoStateBetweenCallsWitness ==
    /\ Len(calls) = 2
    /\ calls[2].input = calls[1].input
    /\ calls[1].output # calls[1].input
    /\ Len(BlocksOf(calls[1].input)) > Len(BlocksOf(calls[1].output))

(***************************************************************************)
(* C17.  Empty input: the call on the empty string returns the empty       *)
(* string.                                                                 *)
(***************************************************************************)
EmptyInputGivesEmpty ==
    (pc = "done" /\ log = <<>>) => ret = <<>>

\* The call on the empty string has finished.
EmptyInputGivesEmptyWitness ==
    /\ pc = "done"
    /\ log = <<>>
    /\ Len(lines) = 1

(***************************************************************************)
(* C18.  The diff shown is computed between the deduplicated text (the     *)
(* body of the request that was answered) and the cleaned text.            *)
(***************************************************************************)
DiffIsOfDeduplicatedText ==
    home.shown # <<>> =>
        home.diffParts = <<home.shown[1].body.log, home.cleanedLog>>

(***************************************************************************)
(* C19.  The body of every request is deduplicateLog of the inputLog       *)
(* present when handleClean started, and no request is sent for an empty   *)
(* inputLog.                                                               *)
(***************************************************************************)
RequestBodyIsDeduplicated ==
    \A k \in 1..Len(home.sent) :
        /\ home.sent[k].inputLog # <<>>
        /\ home.sent[k].body.log = deduplicateLog(home.sent[k].inputLog)
        /\ BlocksOf(home.sent[k].body.log)
               = [j \in 1..Len(FirstOccurrences(BlocksOf(home.sent[k].inputLog), {})) |->
                     LET b == FirstOccurrences(BlocksOf(home.sent[k].inputLog), {})[j]
                         n == Cardinality(
                                  {m \in 1..Len(BlocksOf(home.sent[k].inputLog)) :
                                      Fingerprint(BlocksOf(home.sent[k].inputLog)[m])
                                          = Fingerprint(b)})
                     IN  IF n > 1 THEN b \o AnnotSuffix(n) ELSE b]

\* A request was sent whose body differs from the raw input, and the input
\* was edited while the request was in flight.
RequestBodyIsDeduplicatedWitness ==
    /\ Len(home.inflight) = 1
    /\ home.inflight[1].body.log # home.inflight[1].inputLog
    /\ home.inputLog # home.inflight[1].inputLog

RejectedRequests ==
    {r \in 1..Len(server.reqs) :
        ~server.reqs[r].hasLog \/ server.reqs[r].log = <<>>}

(***************************************************************************)
(* C21.  A request whose log field is missing or empty is answered with    *)
(* status 400; the model is never called for it and it stores nothing.     *)
(***************************************************************************)
EmptySubmissionsRejected ==
    \A r \in RejectedRequests :
        /\ server.reqs[r].status = 400
        /\ server.reqs[r].responses = 1
        /\ ~server.reqs[r].called
        /\ server.reqs[r].saved = 0
        /\ \A k \in 1..Len(server.created) : server.created[k].req # r
        /\ \A id \in DOMAIN server.logs : server.logs[id].originalContent # <<>>

\* Both a request without a log field and one with an empty log were
\* rejected, the second while the store held a record.
EmptySubmissionsRejectedWitness ==
    /\ \E r \in RejectedRequests : ~server.reqs[r].hasLog
    /\ \E r \in RejectedRequests :
           /\ server.reqs[r].hasLog
           /\ \E q \in 1..(r - 1) : server.reqs[q].saved > 0
    /\ Len(server.created) = 1

(***************************************************************************)
(* C26.  When the model's call fails, the handler answers 500 with the     *)
(* body {error: 'Error processing log'} and the store is unchanged: no     *)
(* record is created and currentId is not advanced.                        *)
(***************************************************************************)
LlmFailureLeavesStore ==
    [][\A r \in 1..Len(server.reqs) :
           (server.reqs[r].at = "llm" /\ server'.reqs[r].at # "saved"
                /\ server'.reqs[r] # server.reqs[r])
           => /\ server'.reqs[r].at = "done"
              /\ server'.reqs[r].status = 500
              /\ server'.reqs[r].error = "Error processing log"
              /\ server'.reqs[r].responses = 1
              /\ server'.reqs[r].saved = 0
              /\ server'.logs = server.logs
              /\ server'.currentId = server.currentId
              /\ server'.created = server.created]_vars

\* A request was answered 500 after another request had stored its record,
\* and the store holds that one record.
LlmFailureLeavesStoreWitness ==
    /\ \E r \in 1..Len(server.reqs) :
           /\ server.reqs[r].status = 500
           /\ \E q \in 1..Len(server.reqs) :
                  server.reqs[q].saved = 1 /\ server.reqs[q].log = server.reqs[r].log
    /\ server.currentId = 2
    /\ DOMAIN server.logs = {1}

(***************************************************************************)
(* C27.  A 200 response is sent only after a record was stored whose       *)
(* originalContent is the request's log and whose cleanedContent is the    *)
(* text the model returned for that request; no record pairs the log of    *)
(* one request with the cleaned text of another.                           *)
(***************************************************************************)
StoredBeforeAnswered ==
    /\ \A r \in 1..Len(server.reqs) :
           server.reqs[r].status = 200 =>
               /\ server.reqs[r].saved \in DOMAIN server.logs
               /\ server.logs[server.reqs[r].saved].originalContent
                      = server.reqs[r].log
               /\ server.logs[server.reqs[r].saved].cleanedContent
                      = server.reqs[r].cleaned
               /\ server.reqs[r].sent = server.reqs[r].cleaned
    /\ \A id \in DOMAIN server.logs :
           \E r \in 1..Len(server.reqs) :
               /\ server.reqs[r].saved = id
               /\ server.logs[id].originalContent = server.reqs[r].log
               /\ server.logs[id].cleanedContent = server.reqs[r].cleaned

\* Two requests with different logs were awaiting the model together, the
\* later one was served first with a different text, and both got their 200.
StoredBeforeAnsweredWitness ==
    /\ Len(server.reqs) >= 2
    /\ server.reqs[1].status = 200
    /\ server.reqs[2].status = 200
    /\ server.reqs[1].log # server.reqs[2].log
    /\ server.reqs[1].cleaned # server.reqs[2].cleaned
    /\ server.reqs[2].saved < server.reqs[1].saved

(***************************************************************************)
(* C28.  Every request receives exactly one response, with status 200,     *)
(* 400 or 500, provided the model's call and the store's call settle.      *)
(***************************************************************************)
ExactlyOneResponse ==
    /\ [](\A r \in 1..Len(server.reqs) :
              /\ server.reqs[r].responses <= 1
              /\ server.reqs[r].responses = 1
                     => server.reqs[r].status \in {200, 400, 500}
              /\ server.reqs[r].responses = 0 => server.reqs[r].status = 0
              /\ server.reqs[r].at = "done" => server.reqs[r].responses = 1)
    /\ \A k \in 1..MaxRequests :
           (Len(server.reqs) >= k)
               ~> (/\ Len(server.reqs) >= k
                   /\ server.reqs[k].at = "done"
                   /\ server.reqs[k].responses = 1)

\* Three requests were answered, one with each status.
ExactlyOneResponseWitness ==
    /\ Len(server.reqs) >= 3
    /\ \A r \in 1..3 : server.reqs[r].responses = 1
    /\ {server.reqs[r].status : r \in 1..3} = {200, 400, 500}

(***************************************************************************)
(* C29.  isLoading is true from the step that sends the request until the  *)
(* request settles, and false once it has settled, on success and on       *)
(* failure alike.                                                          *)
(***************************************************************************)
LoadingWhileInFlight ==
    /\ home.isLoading <=> home.inflight # <<>>
    /\ home.isLoading => Len(home.sent) >= 1

\* The first request failed (nothing is displayed) and the page is idle
\* again; a second request succeeded or is yet to come.
LoadingWhileInFlightWitness ==
    /\ Len(home.sent) = 1
    /\ home.inflight = <<>>
    /\ home.shown = <<>>
    /\ ~home.isLoading

(***************************************************************************)
(* C30.  handleClean starts only while inputLog is non-empty and isLoading *)
(* is false; at most one request is in flight, and what is displayed comes *)
(* from the most recently started request.                                 *)
(***************************************************************************)
OneRequestInFlight ==
    /\ [](Len(home.inflight) <= 1)
    /\ [][/\ Len(home'.sent) > Len(home.sent)
               => /\ home.inputLog # <<>>
                  /\ ~home.isLoading
                  /\ home.inflight = <<>>
          /\ (home'.shown # home.shown
                  \/ home'.cleanedLog # home.cleanedLog
                  \/ home'.diffParts # home.diffParts)
               => /\ home'.shown # <<>>
                  /\ home'.shown[1].id = Len(home.sent)
                  /\ home'.shown[1] = home.sent[Len(home.sent)]
                  /\ home'.diffParts[2] = home'.cleanedLog]_vars

\* The second request's answer is displayed after the first request's.
OneRequestInFlightWitness ==
    /\ Len(home.sent) = 2
    /\ home.shown # <<>>
    /\ home.shown[1].id = 2
    /\ home.shown[1].inputLog # home.sent[1].inputLog
    /\ home.inflight = <<>>

\* The indices at which a run of equal adjacent lines starts
RunStarts(ls) == {k \in 1..Len(ls) : k = 1 \/ ls[k] # ls[k - 1]}

\* The length of the run that starts at k
RunLength(ls, k) ==
    SetMin({j \in RunStarts(ls) : j > k} \cup {Len(ls) + 1}) - k

\* The j-th run start
NthRunStart(ls, j) ==
    CHOOSE k \in RunStarts(ls) :
        Cardinality({m \in RunStarts(ls) : m <= k}) = j

(***************************************************************************)
(* C22.  The consecutive-line deduplicateLog turns every maximal run of n  *)
(* equal adjacent lines into one output line, suffixed ' [xn]' if and only *)
(* if n > 1; equal lines that are not adjacent are not merged, and the     *)
(* output lines keep the input order.                                      *)
(***************************************************************************)
ConsecutiveRunsCompressed ==
    pc = "done" =>
        LET ls == Split(log)
        IN  Split(ret) =
                [j \in 1..Cardinality(RunStarts(ls)) |->
                    LET k == NthRunStart(ls, j)
                    IN  IF RunLength(ls, k) > 1
                        THEN ls[k] \o AnnotSuffix(RunLength(ls, k))
                        ELSE ls[k]]

\* A run of two, another line, and the first line again: three output lines.
ConsecutiveRunsCompressedWitness ==
    /\ pc = "done"
    /\ Split(log) = << <<"a">>, <<"a">>, <<"b">>, <<"a">> >>
    /\ Split(ret) = << <<"a", " ", "[", "x", "2", "]">>, <<"b">>, <<"a">> >>

\* t has the form [Mon dd HH:MM:SS]
IsSyslogStamp(t) ==
    /\ Len(t) = 17
    /\ t[1] = "[" /\ t[17] = "]"
    /\ \A k \in {2, 3, 4} : t[k] \in Letters
    /\ \A k \in {5, 8} : t[k] = " "
    /\ \A k \in {6, 7, 9, 10, 12, 13, 15, 16} : t[k] \in Digits
    /\ \A k \in {11, 14} : t[k] = ":"

\* a and b are different lines that differ only in a timestamp of that form
DiffersOnlyInStamp(a, b) ==
    /\ Len(a) = Len(b)
    /\ a # b
    /\ \E p \in 1..(Len(a) - 16) :
           /\ IsSyslogStamp(SubSeq(a, p, p + 16))
           /\ IsSyslogStamp(SubSeq(b, p, p + 16))
           /\ SubSeq(a, 1, p - 1) = SubSeq(b, 1, p - 1)
           /\ SubSeq(a, p + 17, Len(a)) = SubSeq(b, p + 17, Len(b))

(***************************************************************************)
(* C23.  In the line-based deduplicateLog two lines that differ only in a  *)
(* bracketed syslog-style timestamp have the same key and are merged into  *)
(* one output line: the first line's text annotated with the count.        *)
(***************************************************************************)
SyslogStampsMerge ==
    pc = "done" =>
        LET ls == TrimmedLines(log)
            out == Split(ret)
        IN  \A a, b \in 1..Len(ls) :
                DiffersOnlyInStamp(ls[a], ls[b]) =>
                    LET group == {j \in 1..Len(ls) :
                                     normalizeLine(ls[j]) = normalizeLine(ls[a])}
                        n == Cardinality(group)
                    IN  /\ normalizeLine(ls[a]) = normalizeLine(ls[b])
                        /\ {m \in 1..Len(out) :
                               \E j \in group :
                                   \/ out[m] = ls[j]
                                   \/ \E c \in 2..Len(ls) :
                                          out[m] = ls[j] \o AnnotSuffix(c)}
                               = {m \in 1..Len(out) :
                                     out[m] = ls[SetMin(group)] \o AnnotSuffix(n)}
                        /\ Cardinality({m \in 1..Len(out) :
                               out[m] = ls[SetMin(group)] \o AnnotSuffix(n)}) = 1

\* Three lines: two that differ in month, day and time, and between them a
\* line with another message; two output lines, the first annotated.
SyslogStampsMergeWitness ==
    /\ pc = "done"
    /\ Len(TrimmedLines(log)) = 3
    /\ DiffersOnlyInStamp(TrimmedLines(log)[1], TrimmedLines(log)[3])
    /\ Len(Split(ret)) = 2
    /\ Split(ret)[1] = TrimmedLines(log)[1] \o AnnotSuffix(2)

\* t is a bracketed tag of word and whitespace characters
IsTag(t) ==
    /\ Len(t) >= 3
    /\ t[1] = "[" /\ t[Len(t)] = "]"
    /\ \A k \in 2..(Len(t) - 1) : t[k] \in WordChars \cup SpaceChars

\* a and b are different texts that differ only in the content of one tag
DiffersOnlyInTag(a, b) ==
    /\ a # b
    /\ \E p \in 1..Len(a), ea \in 1..Len(a), eb \in 1..Len(b) :
           /\ p <= Len(b)
           /\ IsTag(SubSeq(a, p, ea))
           /\ IsTag(SubSeq(b, p, eb))
           /\ SubSeq(a, 1, p - 1) = SubSeq(b, 1, p - 1)
           /\ SubSeq(a, ea + 1, Len(a)) = SubSeq(b, eb + 1, Len(b))

(***************************************************************************)
(* C24.  The tag pass runs before the digit pass, on the rewritten string: *)
(* a bracketed tag of word and whitespace characters is replaced as a      *)
(* whole, digits included, so two blocks that differ only in the content   *)
(* of such a tag have the same fingerprint and are counted together.       *)
(***************************************************************************)
TagsReplacedWhole ==
    pc = "done" =>
        \A a, b \in 1..Len(InputBlocks) :
            DiffersOnlyInTag(InputBlocks[a], InputBlocks[b]) =>
                /\ Fingerprint(InputBlocks[a]) = Fingerprint(InputBlocks[b])
                /\ Fingerprint(InputBlocks[a]) \in DOMAIN errorCache
                /\ errorCache[Fingerprint(InputBlocks[a])].count
                       = CountOf(Fingerprint(InputBlocks[a]))
                /\ errorCache[Fingerprint(InputBlocks[a])].count >= 2

\* '[abc 123] up' and '[xyz] up' gave one output block, annotated ' [x2]'.
TagsReplacedWholeWitness ==
    /\ pc = "done"
    /\ Len(InputBlocks) = 2
    /\ Len(InputBlocks[1]) = 12
    /\ Len(InputBlocks[2]) = 8
    /\ DiffersOnlyInTag(InputBlocks[1], InputBlocks[2])
    /\ OutputBlocks = <<InputBlocks[1] \o AnnotSuffix(2)>>

\* The indices at which a maximal run of non-blank lines starts
SegmentStarts(ls) ==
    {k \in 1..Len(ls) : ~IsBlank(ls[k]) /\ (k = 1 \/ IsBlank(ls[k - 1]))}

\* Where the run of non-blank lines that holds line k ends, and starts
SegmentEnd(ls, k) ==
    SetMin({j \in k..Len(ls) : j = Len(ls) \/ IsBlank(ls[j + 1])})

SegmentStart(ls, k) ==
    SetMax({j \in 1..k : j \in SegmentStarts(ls)})

\* The maximal runs of non-blank lines, in input order, each joined
Segments(ls) ==
    [j \in 1..Cardinality(SegmentStarts(ls)) |->
        LET k == CHOOSE k \in SegmentStarts(ls) :
                     Cardinality({m \in SegmentStarts(ls) : m <= k}) = j
        IN  Join(SubSeq(ls, k, SegmentEnd(ls, k)))]

\* The cache that counts the blocks bs by fingerprint and keeps the first
\* block of each
CountsOf(bs) ==
    [f \in {Fingerprint(bs[k]) : k \in 1..Len(bs)} |->
        [count |-> Cardinality({k \in 1..Len(bs) : Fingerprint(bs[k]) = f}),
         originalMessage |->
             bs[SetMin({k \in 1..Len(bs) : Fingerprint(bs[k]) = f})]]]

(***************************************************************************)
(* C25.  Segmentation: the block being accumulated is the run of non-blank *)
(* lines read since the last blank line; the blocks counted are the        *)
(* maximal runs of non-blank lines, in input order; a final block that no  *)
(* blank line follows is terminated by the end of the input, so the blocks *)
(* and counts for x are those for x followed by a blank line.              *)
(***************************************************************************)
SegmentationByBlankLines ==
    /\ (pc = "loop" /\ i >= 1 /\ i < Len(lines)) =>
           currentErrorBlock =
               IF IsBlank(lines[i]) THEN <<>>
               ELSE SubSeq(lines, SegmentStart(lines, i), i)
    /\ (pc = "loop" /\ i = Len(lines)) => currentErrorBlock = <<>>
    /\ pc = "done" =>
           /\ errorCache = CountsOf(Segments(lines))
           /\ Segments(lines) = Segments(Split(log \o <<NL>>))
           /\ errorCache
                  = LoopFrom(Split(log \o <<NL>>), 0, EmptyCache, <<>>, <<>>).cache
           /\ SelectSeq(processedLines, LAMBDA e : e # <<>>)
                  = FirstOccurrences(Segments(lines), {})

\* A finished call on a one-line block, a blank line and a two-line block
\* that ends the input with no blank line after it.
SegmentationByBlankLinesWitness ==
    /\ pc = "done"
    /\ Len(lines) = 4
    /\ ~IsBlank(lines[1]) /\ IsBlank(lines[2])
    /\ ~IsBlank(lines[3]) /\ ~IsBlank(lines[4])
    /\ Segments(lines) = <<lines[1], Join(<<lines[3], lines[4]>>)>>
    /\ Cardinality(DOMAIN errorCache) = 2

====
